---- MODULE Spec2Model ----
(***************************************************************************)
(* Model of the request execution core of the Lunos client:                *)
(*   - BaseService: makeRequest / makeRequestWithRetry (buffered JSON),     *)
(*     makeStreamRequest (streaming), makeRawRequest (raw binary),          *)
(*     handleErrorResponse, calculateRetryDelay, shouldTryFallback,         *)
(*     tryWithFallbackModel, tryStreamWithFallbackModel;                    *)
(*   - ChatService.createCompletion as the entry into makeRequest;          *)
(*   - StreamProcessor.processStream (SSE decoding) with its callbacks,     *)
(*     and ChatService.createCompletionWithStream;                          *)
(*   - LunosClient: constructor, updateConfig, with* clones, and the        *)
(*     service methods that hand the request's appId to the pipeline.       *)
(* Text is modelled as sequences of one-character strings, time in          *)
(* milliseconds.                                                            *)
(***************************************************************************)
EXTENDS Integers, Sequences, FiniteSets, TLC

(***************************************************************************)
(* Bounds of the exploration.                                               *)
(***************************************************************************)
\* largest config.retries explored (validateRetryConfig admits 0..10)
MaxRetriesCfg == 3
\* how many times the clock may advance while one transport call is in flight
MaxWaitSteps == 2
MaxUpdates == 2

(***************************************************************************)
(* Text helpers.                                                            *)
(***************************************************************************)
UpperChars == <<"A","B","C","D","E","F","G","H","I","J","K","L","M","N","O","P","Q","R","S","T","U","V","W","X","Y","Z">>
LowerChars == <<"a","b","c","d","e","f","g","h","i","j","k","l","m","n","o","p","q","r","s","t","u","v","w","x","y","z">>
DigitChars == <<"0","1","2","3","4","5","6","7","8","9">>

\* String.prototype.toLowerCase on one character
LowerChar(c) ==
    IF \E i \in 1..Len(UpperChars) : UpperChars[i] = c
    THEN LowerChars[CHOOSE i \in 1..Len(UpperChars) : UpperChars[i] = c]
    ELSE c

\* String.prototype.toLowerCase
toLowerCase(s) == [i \in 1..Len(s) |-> LowerChar(s[i])]

\* String.prototype.includes
includes(s, kw) ==
    \E i \in 1..(Len(s) - Len(kw) + 1) : SubSeq(s, i, i + Len(kw) - 1) = kw

\* String.prototype.startsWith
startsWith(s, p) == Len(s) >= Len(p) /\ SubSeq(s, 1, Len(p)) = p

\* decimal rendering of a non-negative integer inside a template string
RECURSIVE Digits(_)
Digits(n) ==
    IF n < 10 THEN <<DigitChars[n + 1]>>
    ELSE Digits(n \div 10) \o <<DigitChars[(n % 10) + 1]>>

Min(a, b) == IF a <= b THEN a ELSE b

Last(q) == q[Len(q)]

RECURSIVE Pow2(_)
Pow2(n) == IF n = 0 THEN 1 ELSE 2 * Pow2(n - 1)

(***************************************************************************)
(* Errors (client/errors/LunosError).  lunos = instanceof LunosError;       *)
(* status -1 and code "undefined" stand for an absent field; retryAfter is  *)
(* details.retryAfter.                                                      *)
(***************************************************************************)
\* JavaScript values of a numeric field: undefined, NaN, or a number
Undefined == [kind |-> "undefined", n |-> 0]
NaN == [kind |-> "NaN", n |-> 0]
Number(n) == [kind |-> "number", n |-> n]

NoError == [name |-> "none", message |-> <<>>, status |-> -1, code |-> "undefined", lunos |-> FALSE, retryAfter |-> Undefined]

LunosError(message, status, code) ==
    [name |-> "LunosError", message |-> message, status |-> status, code |-> code, lunos |-> TRUE, retryAfter |-> Undefined]

APIError(message, status) ==
    [name |-> "APIError", message |-> message, status |-> status, code |-> "undefined", lunos |-> TRUE, retryAfter |-> Undefined]

ValidationError(message) ==
    [name |-> "ValidationError", message |-> message, status |-> 400, code |-> "VALIDATION_ERROR", lunos |-> TRUE, retryAfter |-> Undefined]

AuthenticationError(message) ==
    [name |-> "AuthenticationError", message |-> message, status |-> 401, code |-> "AUTHENTICATION_ERROR", lunos |-> TRUE, retryAfter |-> Undefined]

RateLimitError(message, retryAfter) ==
    [name |-> "RateLimitError", message |-> message, status |-> 429, code |-> "RATE_LIMIT_ERROR", lunos |-> TRUE, retryAfter |-> retryAfter]

NetworkError(message) ==
    [name |-> "NetworkError", message |-> message, status |-> 0, code |-> "NETWORK_ERROR", lunos |-> TRUE, retryAfter |-> Undefined]

\* errors of the platform, not of the library
NativeError(name, message) ==
    [name |-> name, message |-> message, status |-> -1, code |-> "undefined", lunos |-> FALSE, retryAfter |-> Undefined]

\* fetch rejects because the external AbortController was aborted
AbortError == NativeError("AbortError", <<"T","h","i","s"," ","o","p","e","r","a","t","i","o","n"," ","w","a","s"," ","a","b","o","r","t","e","d">>)
\* fetch rejects because an AbortSignal.timeout signal fired
TimeoutError == NativeError("TimeoutError", <<"T","h","e"," ","o","p","e","r","a","t","i","o","n"," ","t","i","m","e","d"," ","o","u","t">>)
\* fetch rejects for a transport reason (DNS, connection reset)
FetchFailed == NativeError("TypeError", <<"f","e","t","c","h"," ","f","a","i","l","e","d">>)
\* JSON.parse / response.json() of text that is not JSON
SyntaxError == NativeError("SyntaxError", <<"U","n","e","x","p","e","c","t","e","d"," ","t","o","k","e","n">>)

(***************************************************************************)
(* HTTP responses of the remote API (black box).                            *)
(***************************************************************************)
Statuses == {200, 400, 401, 403, 404, 408, 429, 500, 502, 503, 504}

\* reason phrase sent with the status line
StatusText(s) == <<"E","r","r">>

MsgModel == <<"M","o","d","e","l"," ","g","o","n","e">>

\* body kinds: JSON object whose error.message is msg (<<>> when the field is
\* missing or empty), text that is not JSON, or no body at all (null)
JsonBody(msg) == [kind |-> "json", message |-> msg]
TextBody == [kind |-> "text", message |-> <<>>]
NullBody == [kind |-> "null", message |-> <<>>]
Bodies == {JsonBody(<<>>), JsonBody(MsgModel), TextBody, NullBody}

\* response.headers.get("retry-after"): null, or the text of the header
NoHeader == [present |-> FALSE, text |-> <<>>]
Header(text) == [present |-> TRUE, text |-> text]

Response(status, body) ==
    [status |-> status, statusText |-> StatusText(status), body |-> body,
     retryAfter |-> NoHeader, contentType |-> NoHeader, bytes |-> <<>>]
\* the same response sent with a retry-after header
withRetryAfter(resp, header) == [resp EXCEPT !.retryAfter = header]
\* the same response sent with a content-type header and these body bytes
withContent(resp, header, bytes) == [resp EXCEPT !.contentType = header, !.bytes = bytes]
NoResponse == Response(0, NullBody)

\* makeRawRequest has not returned
NoRawResult == [returned |-> FALSE, buffer |-> <<>>, contentType |-> <<>>]

\* Response.ok
Ok(resp) == resp.status \in 200..299

(***************************************************************************)
(* handleErrorResponse: the error thrown for a non-2xx response.            *)
(***************************************************************************)
errorMessage(resp) ==
    IF resp.body.kind = "json"
    THEN IF resp.body.message # <<>>
         THEN resp.body.message
         ELSE <<"H","T","T","P"," ">> \o Digits(resp.status)
    ELSE <<"H","T","T","P"," ">> \o Digits(resp.status) \o <<":"," ">> \o resp.statusText

\* parseInt(text): leading blanks and a sign are skipped, the longest prefix
\* of decimal digits is the value, NaN when there is none
isDigit(c) == \E i \in 1..Len(DigitChars) : DigitChars[i] = c
digitValue(c) == (CHOOSE i \in 1..Len(DigitChars) : DigitChars[i] = c) - 1

RECURSIVE digitsValue(_, _, _)
digitsValue(text, i, acc) ==
    IF i <= Len(text) /\ isDigit(text[i])
    THEN digitsValue(text, i + 1, acc * 10 + digitValue(text[i]))
    ELSE acc

RECURSIVE skipBlanks(_)
skipBlanks(text) ==
    IF text # <<>> /\ Head(text) \in {" ", "\t"} THEN skipBlanks(Tail(text)) ELSE text

parseInt(text) ==
    LET t == skipBlanks(text)
        negative == t # <<>> /\ Head(t) = "-"
        u == IF t # <<>> /\ Head(t) \in {"-", "+"} THEN Tail(t) ELSE t
    IN  IF u = <<>> \/ ~isDigit(Head(u)) THEN NaN
        ELSE Number(IF negative THEN 0 - digitsValue(u, 1, 0) ELSE digitsValue(u, 1, 0))

\* retryAfter ? parseInt(retryAfter) : undefined
retryAfterOf(resp) ==
    IF resp.retryAfter.present /\ resp.retryAfter.text # <<>>
    THEN parseInt(resp.retryAfter.text)
    ELSE Undefined

\* variant: case 502 is missing from the switch
handleErrorResponse_no502(resp) ==
    CASE resp.status = 401 -> AuthenticationError(errorMessage(resp))
      [] resp.status = 429 -> RateLimitError(errorMessage(resp), retryAfterOf(resp))
      [] resp.status = 400 -> LunosError(errorMessage(resp), resp.status, "BAD_REQUEST")
      [] resp.status = 403 -> LunosError(errorMessage(resp), resp.status, "FORBIDDEN")
      [] resp.status = 404 -> LunosError(errorMessage(resp), resp.status, "NOT_FOUND")
      [] resp.status \in {500, 503, 504} ->
            LunosError(errorMessage(resp), resp.status, "SERVER_ERROR")
      [] OTHER -> APIError(errorMessage(resp), resp.status)

handleErrorResponse(resp) ==
    CASE resp.status = 401 -> AuthenticationError(errorMessage(resp))
      [] resp.status = 429 -> RateLimitError(errorMessage(resp), retryAfterOf(resp))
      [] resp.status = 400 -> LunosError(errorMessage(resp), resp.status, "BAD_REQUEST")
      [] resp.status = 403 -> LunosError(errorMessage(resp), resp.status, "FORBIDDEN")
      [] resp.status = 404 -> LunosError(errorMessage(resp), resp.status, "NOT_FOUND")
      [] resp.status \in {500, 502, 503, 504} ->
            LunosError(errorMessage(resp), resp.status, "SERVER_ERROR")
      [] OTHER -> APIError(errorMessage(resp), resp.status)

(***************************************************************************)
(* calculateRetryDelay and the RetryConfig built by makeRequest.            *)
(***************************************************************************)
maxDelay == 10000
retryStatusCodes == {408, 429, 500, 502, 503, 504}

\* variant: the delay is not capped by maxDelay
calculateRetryDelay_uncapped(attemptNo, baseDelay) == baseDelay * Pow2(attemptNo)

calculateRetryDelay(attemptNo, baseDelay) == Min(baseDelay * Pow2(attemptNo), maxDelay)

(***************************************************************************)
(* shouldTryFallback.                                                       *)
(***************************************************************************)
modelErrorKeywords == {
    <<"m","o","d","e","l">>,
    <<"m","o","d","e","l"," ","n","o","t"," ","f","o","u","n","d">>,
    <<"m","o","d","e","l"," ","u","n","a","v","a","i","l","a","b","l","e">>,
    <<"m","o","d","e","l"," ","e","r","r","o","r">>,
    <<"i","n","v","a","l","i","d"," ","m","o","d","e","l">>,
    <<"m","o","d","e","l"," ","n","o","t"," ","a","v","a","i","l","a","b","l","e">>,
    <<"m","o","d","e","l"," ","t","e","m","p","o","r","a","r","i","l","y"," ","u","n","a","v","a","i","l","a","b","l","e">> }

\* variant: only the phrase "model not found" counts as model-related
shouldTryFallback_phraseOnly(error) ==
    includes(toLowerCase(error.message),
             <<"m","o","d","e","l"," ","n","o","t"," ","f","o","u","n","d">>)

shouldTryFallback(error) ==
    \E keyword \in modelErrorKeywords : includes(toLowerCase(error.message), keyword)

(***************************************************************************)
(* Request bodies.  options.body is JSON text or undefined; the text of a   *)
(* JSON object is modelled as the ordered list of its fields.               *)
(***************************************************************************)
NoModel == "undefined"
NoBody == [present |-> FALSE, fields |-> <<>>]
JsonText(fields) == [present |-> TRUE, fields |-> fields]
ChatBody == JsonText(<< [k |-> "model", v |-> "primary"], [k |-> "messages", v |-> "hello"] >>)

\* JSON.parse(options.body) succeeds only on JSON text
parses(body) == body.present

\* body.model = fallbackModel; JSON.stringify(body): an existing key keeps its
\* place, a new key is added last
setModel(fields, m) ==
    IF \E i \in 1..Len(fields) : fields[i].k = "model"
    THEN [i \in 1..Len(fields) |->
            IF fields[i].k = "model" THEN [k |-> "model", v |-> m] ELSE fields[i]]
    ELSE Append(fields, [k |-> "model", v |-> m])

\* the model field of a request body (NoModel when there is none)
modelOf(body) ==
    IF body.present /\ \E i \in 1..Len(body.fields) : body.fields[i].k = "model"
    THEN body.fields[CHOOSE i \in 1..Len(body.fields) : body.fields[i].k = "model"].v
    ELSE NoModel

(***************************************************************************)
(* Request headers: a JavaScript object, from header name to value.  A      *)
(* value is a sequence of tokens.                                           *)
(***************************************************************************)
HAuthorization == <<"A","u","t","h","o","r","i","z","a","t","i","o","n">>
HContentType == <<"C","o","n","t","e","n","t","-","T","y","p","e">>
HAppId == <<"X","-","A","p","p","-","I","D">>
HTrace == <<"X","-","T","r","a","c","e">>
ApplicationJson == << <<"a","p","p","l","i","c","a","t","i","o","n","/","j","s","o","n">> >>
TextPlain == << <<"t","e","x","t","/","p","l","a","i","n">> >>
\* variant: the scheme is missing from the Authorization value
Bearer_bare(apiKey) == <<apiKey>>

Bearer(apiKey) == <<"Bearer", apiKey>>

NoHeaders == [k \in {} |-> <<>>]
\* variant: the earlier object wins
spread_firstWins(a, b) ==
    [k \in DOMAIN a \cup DOMAIN b |-> IF k \in DOMAIN a THEN a[k] ELSE b[k]]

\* {...a, ...b}
spread(a, b) == [k \in DOMAIN a \cup DOMAIN b |-> IF k \in DOMAIN b THEN b[k] ELSE a[k]]
\* an absent or empty appId
NoAppId == ""

(***************************************************************************)
(* Cancellation signals.                                                    *)
(***************************************************************************)
\* AbortSignal.timeout(ms) created at time t
TimeoutSignal(t, ms) == [kind |-> "timeout", created |-> t, deadline |-> t + ms]
\* the signal of the caller's AbortController
ExternalSignal == [kind |-> "external", created |-> 0, deadline |-> 0]
NoSignal == [kind |-> "none", created |-> 0, deadline |-> 0]

(***************************************************************************)
(* State.                                                                   *)
(***************************************************************************)
VARIABLES
    config,          \* this.config of the service
    options,         \* RequestInit handed to the call (body)
    requestOptions,  \* RequestOptions handed to the call
    secondArg,       \* second argument the caller gave to the public method
    env,             \* behaviour of the remote API and of the network
    pc,              \* where the logical call is suspended
    shape,           \* "buffered", "stream" or "raw" once the call started
    attempt,         \* loop variable of makeRequestWithRetry
    signal,          \* requestOptions_.signal
    headers,         \* requestOptions_.headers
    retryConfig,     \* RetryConfig built by makeRequest
    fallbackModel,   \* fallback model handed to makeRequestWithRetry
    lastError,       \* lastError of makeRequestWithRetry
    result,          \* settlement of the promise returned to the caller
    now,             \* clock, ms
    aborted,         \* the caller's AbortController has been aborted
    waited,          \* clock advances seen by the transport call in flight
    log,             \* transport calls issued: request and start time
    sleeps,          \* backoff delays awaited
    firstModel,      \* the first attempt failed with a message containing "model"
    uniform,         \* all attempts so far got a non-2xx response of one status
    failed,          \* number of regular attempts that failed
    cause,           \* how the latest transport call settled
    settledAt        \* times at which the transport calls issued so far settled

\* state of one StreamProcessor and of the stream it consumes
VARIABLES
    input,           \* all the bytes of the stream
    upstream,        \* bytes the stream has not handed out yet
    upstreamEnd,     \* how the stream ends: "close", "error" or "open" (never)
    accumulate,      \* options.accumulate
    spc,             \* where processStream is: "idle", "reading", "returned"
    pending,         \* bytes of an incomplete character held by this.decoder
    buffer,          \* this.buffer
    fullResponse,    \* local fullResponse
    completed,       \* local completed
    readError,       \* local error
    delivered,       \* contents of the frames handed to onChunk, in order
    released,        \* calls of reader.releaseLock()
    atDone,          \* number of frames delivered when [DONE] was first seen
    callbacks,       \* how the caller's callbacks behave
    acquired,        \* calls of stream.getReader()
    onCompleteCalls, \* invocations of onComplete
    onErrorCalls,    \* invocations of onError
    streamResult,    \* the StreamProcessorResult returned
    withStreamResolved \* the promise of createCompletionWithStream has resolved

\* one non-2xx response handed to handleErrorResponse, and what it threw
VARIABLES
    client,          \* this.config of the LunosClient
    userConfig,      \* the argument of the constructor
    clone,           \* this.config of the client returned by a with* method
    outcome,         \* how the last operation on the client ended
    updates,         \* calls of updateConfig
    request,         \* the request object of the service call
    rawResult,       \* what makeRawRequest returned
    received,        \* the response makeRawRequest received
    response,        \* the Response
    classified       \* the error thrown for it (NoError: not handled yet)

requestVars == <<config, options, requestOptions, secondArg, env, pc, shape, attempt, signal,
                 headers, retryConfig, fallbackModel, lastError, result, now, aborted,
                 waited, log, sleeps, firstModel, uniform, failed, cause, settledAt>>
streamVars == <<input, upstream, upstreamEnd, accumulate, spc, pending, buffer, fullResponse,
                completed, readError, delivered, released, atDone, callbacks, acquired,
                onCompleteCalls, onErrorCalls, streamResult, withStreamResolved>>
classifierVars == <<response, classified>>
clientVars == <<client, userConfig, clone, outcome, updates, request>>
rawVars == <<rawResult, received>>
vars == <<requestVars, streamVars, classifierVars, clientVars, rawVars>>

Pending == [kind |-> "pending", error |-> NoError]
Returned == [kind |-> "returned", error |-> NoError]
Thrown(e) == [kind |-> "thrown", error |-> e]

\* a null body and a text body give a non-2xx response the same error
EnvAnswering ==
    [responses |-> {Response(s, b) : s \in Statuses \ {200}, b \in Bodies \ {NullBody}}
                   \cup {Response(200, b) : b \in {JsonBody(<<>>), TextBody, NullBody}},
     rejects |-> {FetchFailed, ValidationError(<<"b","a","d">>)}, slow |-> FALSE]
EnvSlow ==
    [responses |-> {Response(200, JsonBody(<<>>)), Response(503, JsonBody(<<>>)),
                    Response(503, JsonBody(MsgModel))},
     rejects |-> {FetchFailed}, slow |-> TRUE]
\* answers at once: success, a model error, or a rate limit with a hint
EnvConfigured ==
    [responses |-> {Response(200, JsonBody(<<>>)), Response(503, JsonBody(MsgModel)),
                    withRetryAfter(Response(429, JsonBody(<<>>)), Header(<<"1","2","0">>))},
     rejects |-> {}, slow |-> FALSE]
\* a media endpoint: audio bytes with and without a content-type header, or
\* a server error
AudioMpeg == <<"a","u","d","i","o","/","m","p","e","g">>
EnvMedia ==
    [responses |-> {withContent(Response(200, JsonBody(<<>>)), Header(AudioMpeg), <<73, 68, 51>>),
                    withContent(Response(200, JsonBody(<<>>)), NoHeader, <<255, 251>>),
                    withContent(Response(200, JsonBody(<<>>)), Header(<<>>), <<>>),
                    withContent(Response(500, JsonBody(<<>>)), Header(ApplicationJson), <<123, 125>>)},
     rejects |-> {}, slow |-> FALSE]
EnvSilent == [responses |-> {}, rejects |-> {}, slow |-> FALSE]
\* env names the behaviour of the remote API in this run
Env == CASE env = "answering" -> EnvAnswering
         [] env = "slow" -> EnvSlow
         [] env = "configured" -> EnvConfigured
         [] env = "media" -> EnvMedia
         [] OTHER -> EnvSilent

\* AbortSignal.aborted
Aborted(sig) ==
    \/ sig.kind = "timeout" /\ now >= sig.deadline
    \/ sig.kind = "external" /\ aborted

\* signal.reason, the error fetch rejects with
AbortReason(sig) == IF sig.kind = "timeout" THEN TimeoutError ELSE AbortError

\* ways in which fetchImpl(url, {signal: sig}) can settle
Rejection(e) == [rejected |-> TRUE, error |-> e, resp |-> NoResponse]
Resolution(r) == [rejected |-> FALSE, error |-> NoError, resp |-> r]
Settlements(sig) ==
    IF Aborted(sig)
    THEN {Rejection(AbortReason(sig))}
    ELSE {Resolution(r) : r \in Env.responses}
         \cup {Rejection(e) : e \in Env.rejects}

\* how a transport call settled: a 2xx response whose body was usable ("ok")
\* or not ("body"), a non-2xx response ("http"), a rejection by the fired
\* signal ("cancel") or any other rejection of fetch ("transport")
causeOf(o, error) ==
    IF o.rejected
    THEN IF o.error \in {AbortError, TimeoutError} THEN "cancel" ELSE "transport"
    ELSE IF ~Ok(o.resp) THEN "http"
    ELSE IF error = NoError THEN "ok" ELSE "body"

InFlight == pc \in {"fetch", "fallback", "streamFetch", "streamFallback", "rawFetch"}

\* fetchImpl(url, {...options, body, signal}) is called
Issue(kind, body, hdrs, sig, t) ==
    /\ log' = Append(log, [kind |-> kind, body |-> body, headers |-> hdrs, signal |-> sig,
                           start |-> t])
    /\ waited' = 0

(***************************************************************************)
(* Values read by the three call shapes when they build requestOptions_.    *)
(***************************************************************************)
\* requestOptions.timeout || this.config.timeout
timeoutFor(ro) == IF ro.timeout # 0 THEN ro.timeout ELSE config.timeout
effectiveTimeout == timeoutFor(requestOptions)

\* requestOptions.fallback_model || this.config.fallback_model
fallbackFor(ro) ==
    IF ro.fallback_model # NoModel THEN ro.fallback_model ELSE config.fallback_model
effectiveFallback == fallbackFor(requestOptions)

\* signal: requestOptions.signal || AbortSignal.timeout(timeout)
\* variant: this.config.appId || requestOptions.appId
headersFor_configFirst(ro) ==
    LET base == spread(spread((HContentType :> ApplicationJson)
                                @@ (HAuthorization :> Bearer(config.apiKey)),
                              config.headers),
                       ro.headers)
        appId == IF config.appId # NoAppId THEN config.appId ELSE ro.appId
    IN  IF appId # NoAppId THEN spread(base, HAppId :> <<appId>>) ELSE base

\* the headers object built by the three call shapes, X-App-ID included
headersFor(ro) ==
    LET base == spread(spread((HContentType :> ApplicationJson)
                                @@ (HAuthorization :> Bearer(config.apiKey)),
                              config.headers),
                       ro.headers)
        appId == IF ro.appId # NoAppId THEN ro.appId ELSE config.appId
    IN  IF appId # NoAppId THEN spread(base, HAppId :> <<appId>>) ELSE base

signalFor(ro) ==
    IF ro.signal THEN ExternalSignal ELSE TimeoutSignal(now, timeoutFor(ro))
buildSignal == signalFor(requestOptions)

\* variant: only the AuthenticationError check
isNonRetryable_authOnly(error) == error.name = "AuthenticationError"

\* error instanceof AuthenticationError || error instanceof ValidationError
isNonRetryable(error) == error.name \in {"AuthenticationError", "ValidationError"}

\* variant: the budget check fires one attempt early
isLastAttempt_oneEarly(attemptNo, maxRetries) == attemptNo >= maxRetries - 1

\* attempt === retryConfig.maxRetries
isLastAttempt(attemptNo, maxRetries) == attemptNo = maxRetries

\* what the try block of makeRequestWithRetry / tryWithFallbackModel throws
\* for a settlement of fetchImpl (NoError: the block returns response.json())
bufferedError(o) ==
    IF o.rejected THEN o.error
    ELSE IF ~Ok(o.resp) THEN handleErrorResponse(o.resp)
    ELSE IF o.resp.body.kind = "json" THEN NoError
    ELSE SyntaxError

NoStreamBody ==
    LunosError(<<"N","o"," ","r","e","s","p","o","n","s","e"," ","b","o","d","y"," ","f","o","r"," ","s","t","r","e","a","m","i","n","g"," ","r","e","q","u","e","s","t">>, 0, "undefined")

\* what the try block of makeStreamRequest / tryStreamWithFallbackModel throws
streamError(o) ==
    IF o.rejected THEN o.error
    ELSE IF ~Ok(o.resp) THEN handleErrorResponse(o.resp)
    ELSE IF o.resp.body.kind = "null" THEN NoStreamBody
    ELSE NoError

\* what makeRawRequest throws
rawError(o) ==
    IF o.rejected THEN o.error
    ELSE IF ~Ok(o.resp) THEN handleErrorResponse(o.resp)
    ELSE NoError

\* new NetworkError(`Network error: ${error.message}`)
wrapNetworkError(error) ==
    NetworkError(<<"N","e","t","w","o","r","k"," ","e","r","r","o","r",":"," ">> \o error.message)

\* variant: the fallback body is built anew with the model only
fallbackBody_modelOnly(body, model) == JsonText(<< [k |-> "model", v |-> model] >>)

\* the body sent by the fallback attempt
fallbackBody(body, model) == JsonText(setModel(body.fields, model))

Finish(r) == /\ pc' = "done" /\ result' = r

(***************************************************************************)
(* Buffered JSON call: makeRequest and makeRequestWithRetry.                *)
(***************************************************************************)
\* makeRequest up to the first await: builds requestOptions_ and retryConfig,
\* enters the loop and issues the transport call of attempt 0
makeRequestCalled(ro) ==
    /\ pc = "idle"
    /\ shape' = "buffered"
    /\ headers' = headersFor(ro)
    /\ signal' = signalFor(ro)
    /\ retryConfig' = [maxRetries |-> config.retries, baseDelay |-> config.retryDelay]
    /\ fallbackModel' = fallbackFor(ro)
    /\ attempt' = 0
    /\ pc' = "fetch"
    /\ Issue("regular", options.body, headersFor(ro), signalFor(ro), now)
    /\ UNCHANGED <<config, options, secondArg, env, lastError, result, now,
                   aborted, sleeps, firstModel, uniform, failed, cause, settledAt>>
    /\ UNCHANGED <<streamVars, classifierVars, clientVars, rawVars>>

\* a service method hands the caller's RequestOptions to makeRequest
makeRequest ==
    /\ makeRequestCalled(requestOptions)
    /\ UNCHANGED requestOptions

\* request.fallback_model of the request object behind a JSON body
requestFallbackModel(body) ==
    IF \E i \in 1..Len(body.fields) : body.fields[i].k = "fallback_model"
    THEN body.fields[CHOOSE i \in 1..Len(body.fields) : body.fields[i].k = "fallback_model"].v
    ELSE NoModel

\* ChatService.createCompletion(request): the method has one parameter, a
\* second argument of the caller is not read; the request (valid: model and
\* messages present) goes to makeRequest with {fallback_model}
createCompletion ==
    /\ request.service = "chat"
    /\ options.body.present
    /\ requestOptions' = [requestOptions EXCEPT
                             !.timeout = 0,
                             !.fallback_model = requestFallbackModel(options.body),
                             !.signal = FALSE,
                             !.headers = NoHeaders,
                             !.appId = NoAppId]
    /\ makeRequestCalled(requestOptions')

\* the transport call of a regular attempt settles; the loop body runs up to
\* its next await (return, throw, fallback transport call, or backoff sleep)
makeRequestWithRetry ==
    /\ pc = "fetch"
    /\ \E o \in Settlements(signal) :
         \E error \in {bufferedError(o)} :
         /\ firstModel' = IF attempt = 0 THEN shouldTryFallback(error) ELSE firstModel
         /\ uniform' = (/\ uniform
                        /\ ~o.rejected
                        /\ ~Ok(o.resp)
                        /\ (attempt = 0 \/ o.resp.status = lastError.status))
         /\ failed' = IF error = NoError THEN failed ELSE failed + 1
         /\ cause' = causeOf(o, error)
         /\ IF error = NoError
            THEN /\ Finish(Returned)
                 /\ UNCHANGED <<lastError, sleeps, log, waited>>
            ELSE /\ lastError' = error
                 /\ IF isNonRetryable(error)
                    THEN /\ Finish(Thrown(error))
                         /\ UNCHANGED <<sleeps, log, waited>>
                    ELSE IF isLastAttempt(attempt, retryConfig.maxRetries)
                    THEN IF fallbackModel # NoModel /\ shouldTryFallback(error)
                         THEN IF parses(options.body)
                              THEN /\ pc' = "fallback"
                                   /\ Issue("fallback", fallbackBody(options.body, fallbackModel), headers, signal, now)
                                   /\ UNCHANGED <<result, sleeps>>
                              ELSE /\ Finish(Thrown(SyntaxError))
                                   /\ UNCHANGED <<sleeps, log, waited>>
                         ELSE /\ Finish(Thrown(error))
                              /\ UNCHANGED <<sleeps, log, waited>>
                    ELSE /\ sleeps' = Append(sleeps,
                                        calculateRetryDelay(attempt, retryConfig.baseDelay))
                         /\ pc' = "sleep"
                         /\ UNCHANGED <<result, log, waited>>
    /\ settledAt' = Append(settledAt, now)
    /\ UNCHANGED <<config, options, requestOptions, secondArg, env, shape, attempt, signal, headers,
                   retryConfig, fallbackModel, now, aborted>>
    /\ UNCHANGED <<streamVars, classifierVars, clientVars, rawVars>>

\* loop condition: attempt <= retryConfig.maxRetries
loopContinues(attemptNo, maxRetries) == attemptNo <= maxRetries

\* variant: sleep(delay) is called without await
sleepResolves_notAwaited ==
    /\ pc = "sleep"
    /\ now' = now
    /\ attempt' = attempt + 1
    /\ IF loopContinues(attempt + 1, retryConfig.maxRetries)
       THEN /\ pc' = "fetch"
            /\ Issue("regular", options.body, headers, signal, now)
            /\ UNCHANGED result
       ELSE /\ Finish(Thrown(lastError))
            /\ UNCHANGED <<log, waited>>
    /\ UNCHANGED <<config, options, requestOptions, secondArg, env, shape, signal, headers, retryConfig,
                   fallbackModel, lastError, aborted, sleeps, firstModel,
                   uniform, failed, cause, settledAt>>
    /\ UNCHANGED <<streamVars, classifierVars, clientVars, rawVars>>

\* the backoff timer fires: attempt++, then the next transport call is issued
\* (or the loop ends and lastError is thrown)
sleepResolves ==
    /\ pc = "sleep"
    /\ now' = now + sleeps[Len(sleeps)]
    /\ attempt' = attempt + 1
    /\ IF loopContinues(attempt + 1, retryConfig.maxRetries)
       THEN /\ pc' = "fetch"
            /\ Issue("regular", options.body, headers, signal, now + sleeps[Len(sleeps)])
            /\ UNCHANGED result
       ELSE /\ Finish(Thrown(lastError))
            /\ UNCHANGED <<log, waited>>
    /\ UNCHANGED <<config, options, requestOptions, secondArg, env, shape, signal, headers, retryConfig,
                   fallbackModel, lastError, aborted, sleeps, firstModel,
                   uniform, failed, cause, settledAt>>
    /\ UNCHANGED <<streamVars, classifierVars, clientVars, rawVars>>

\* variant: a failed fallback attempt is tried once more
tryWithFallbackModel_again ==
    /\ pc = "fallback"
    /\ \E o \in Settlements(signal) :
         \E error \in {bufferedError(o)} :
         /\ cause' = causeOf(o, error)
         /\ IF error = NoError
            THEN /\ Finish(Returned)
                 /\ UNCHANGED <<log, waited>>
            ELSE IF Len(log) <= retryConfig.maxRetries + 2
            THEN /\ Issue("fallback", log[Len(log)].body, headers, signal, now)
                 /\ UNCHANGED <<pc, result>>
            ELSE /\ Finish(Thrown(error))
                 /\ UNCHANGED <<log, waited>>
    /\ settledAt' = Append(settledAt, now)
    /\ UNCHANGED <<config, options, requestOptions, secondArg, env, shape, attempt, signal, headers,
                   retryConfig, fallbackModel, lastError, now, aborted,
                   sleeps, firstModel, uniform, failed>>
    /\ UNCHANGED <<streamVars, classifierVars, clientVars, rawVars>>

\* the transport call issued by tryWithFallbackModel settles
tryWithFallbackModel ==
    /\ pc = "fallback"
    /\ \E o \in Settlements(signal) :
         \E error \in {bufferedError(o)} :
         /\ Finish(IF error = NoError THEN Returned ELSE Thrown(error))
         /\ cause' = causeOf(o, error)
    /\ settledAt' = Append(settledAt, now)
    /\ UNCHANGED <<config, options, requestOptions, secondArg, env, shape, attempt, signal, headers,
                   retryConfig, fallbackModel, lastError, now, aborted, waited,
                   log, sleeps, firstModel, uniform, failed>>
    /\ UNCHANGED <<streamVars, classifierVars, clientVars, rawVars>>

(***************************************************************************)
(* Streaming call: makeStreamRequest and tryStreamWithFallbackModel.        *)
(***************************************************************************)
\* makeStreamRequest up to its await: the single transport call is issued
makeStreamRequest ==
    /\ pc = "idle"
    /\ shape' = "stream"
    /\ headers' = headersFor(requestOptions)
    /\ signal' = buildSignal
    /\ pc' = "streamFetch"
    /\ Issue("regular", options.body, headersFor(requestOptions), buildSignal, now)
    /\ UNCHANGED <<config, options, requestOptions, secondArg, env, attempt, retryConfig,
                   fallbackModel, lastError, result, now, aborted, sleeps,
                   firstModel, uniform, failed, cause, settledAt>>
    /\ UNCHANGED <<streamVars, classifierVars, clientVars, rawVars>>

\* the transport call settles: the stream is returned, or the catch block
\* runs (fallback transport call, rethrow, or NetworkError)
streamSettles ==
    /\ pc = "streamFetch"
    /\ \E o \in Settlements(signal) :
         \E error \in {streamError(o)} :
         /\ firstModel' = shouldTryFallback(error)
         /\ failed' = IF error = NoError THEN failed ELSE failed + 1
         /\ cause' = causeOf(o, error)
         /\ IF error = NoError
            THEN /\ Finish(Returned)
                 /\ UNCHANGED <<lastError, log, waited>>
            ELSE /\ lastError' = error
                 /\ IF effectiveFallback # NoModel /\ shouldTryFallback(error)
                    THEN IF parses(options.body)
                         THEN /\ pc' = "streamFallback"
                              /\ Issue("fallback", fallbackBody(options.body, effectiveFallback), headers,
                                       signal, now)
                              /\ UNCHANGED result
                         ELSE /\ Finish(Thrown(SyntaxError))
                              /\ UNCHANGED <<log, waited>>
                    ELSE /\ Finish(Thrown(IF error.lunos THEN error
                                          ELSE wrapNetworkError(error)))
                         /\ UNCHANGED <<log, waited>>
    /\ settledAt' = Append(settledAt, now)
    /\ UNCHANGED <<config, options, requestOptions, secondArg, env, shape, attempt, signal, headers,
                   retryConfig, fallbackModel, now, aborted, sleeps, uniform>>
    /\ UNCHANGED <<streamVars, classifierVars, clientVars, rawVars>>

\* the transport call issued by tryStreamWithFallbackModel settles
tryStreamWithFallbackModel ==
    /\ pc = "streamFallback"
    /\ \E o \in Settlements(signal) :
         \E error \in {streamError(o)} :
         /\ Finish(IF error = NoError THEN Returned ELSE Thrown(error))
         /\ cause' = causeOf(o, error)
    /\ settledAt' = Append(settledAt, now)
    /\ UNCHANGED <<config, options, requestOptions, secondArg, env, shape, attempt, signal, headers,
                   retryConfig, fallbackModel, lastError, now, aborted, waited,
                   log, sleeps, firstModel, uniform, failed>>
    /\ UNCHANGED <<streamVars, classifierVars, clientVars, rawVars>>

(***************************************************************************)
(* Raw binary call: makeRawRequest.                                         *)
(***************************************************************************)
\* makeRawRequest up to its await of fetchImpl
makeRawRequestCalled(ro) ==
    /\ pc = "idle"
    /\ shape' = "raw"
    /\ headers' = headersFor(ro)
    /\ signal' = signalFor(ro)
    /\ pc' = "rawFetch"
    /\ Issue("regular", options.body, headersFor(ro), signalFor(ro), now)
    /\ UNCHANGED <<config, options, secondArg, env, attempt, retryConfig,
                   fallbackModel, lastError, result, now, aborted, sleeps,
                   firstModel, uniform, failed, cause, settledAt>>
    /\ UNCHANGED <<streamVars, classifierVars, clientVars, rawVars>>

\* a service method hands the caller's RequestOptions to makeRawRequest
makeRawRequest ==
    /\ makeRawRequestCalled(requestOptions)
    /\ UNCHANGED requestOptions

OctetStream == <<"a","p","p","l","i","c","a","t","i","o","n","/","o","c","t","e","t","-","s","t","r","e","a","m">>

\* variant: the content-type header is returned as it is
contentTypeOf_noDefault(resp) == resp.contentType.text

\* response.headers.get("content-type") || "application/octet-stream"
contentTypeOf(resp) ==
    IF resp.contentType.present /\ resp.contentType.text # <<>>
    THEN resp.contentType.text
    ELSE OctetStream

\* { buffer: Buffer.from(arrayBuffer), contentType }
RawResult(resp) == [returned |-> TRUE, buffer |-> resp.bytes, contentType |-> contentTypeOf(resp)]

rawSettles ==
    /\ pc = "rawFetch"
    /\ \E o \in Settlements(signal) :
         \E error \in {rawError(o)} :
         /\ firstModel' = shouldTryFallback(error)
         /\ lastError' = error
         /\ failed' = IF error = NoError THEN failed ELSE failed + 1
         /\ cause' = causeOf(o, error)
         /\ Finish(IF error = NoError THEN Returned ELSE Thrown(error))
         /\ received' = o.resp
         /\ rawResult' = IF error = NoError THEN RawResult(o.resp) ELSE rawResult
    /\ settledAt' = Append(settledAt, now)
    /\ UNCHANGED <<config, options, requestOptions, secondArg, env, shape, attempt, signal, headers,
                   retryConfig, fallbackModel, now, aborted, waited, log, sleeps,
                   uniform>>
    /\ UNCHANGED <<streamVars, classifierVars, clientVars>>

(***************************************************************************)
(* Environment: the caller's AbortController and the passing of time while  *)
(* a transport call is in flight.                                           *)
(***************************************************************************)
\* controller.abort()
abortController ==
    /\ secondArg.signal
    /\ ~aborted
    /\ pc # "done"
    /\ aborted' = TRUE
    /\ UNCHANGED <<config, options, requestOptions, secondArg, env, pc, shape, attempt, signal, headers,
                   retryConfig, fallbackModel, lastError, result, now, waited, log,
                   sleeps, firstModel, uniform, failed, cause, settledAt>>
    /\ UNCHANGED <<streamVars, classifierVars, clientVars, rawVars>>

\* the remote API has not answered yet; an aborted signal rejects the
\* transport call before any more time passes
WaitStepMs == 1000
serverSlow ==
    /\ InFlight
    /\ Env.slow
    /\ ~Aborted(signal)
    /\ waited < MaxWaitSteps
    /\ now' = now + WaitStepMs
    /\ waited' = waited + 1
    /\ UNCHANGED <<config, options, requestOptions, secondArg, env, pc, shape, attempt, signal, headers,
                   retryConfig, fallbackModel, lastError, result, aborted, log,
                   sleeps, firstModel, uniform, failed, cause, settledAt>>
    /\ UNCHANGED <<streamVars, classifierVars, clientVars, rawVars>>

(***************************************************************************)
(* LunosClient: its configuration, updateConfig, the with* clones, and the  *)
(* service methods that take the request's appId.                           *)
(***************************************************************************)
\* DEFAULT_CONFIG (headers is left undefined by it)
DEFAULT_CONFIG ==
    [apiKey |-> "", timeout |-> 60000, retries |-> 3, retryDelay |-> 1000,
     fallback_model |-> NoModel, appId |-> "Unknown", headers |-> NoHeaders]

\* { ...DEFAULT_CONFIG, ...userConfig }
mergeConfig(user) == spread(DEFAULT_CONFIG, user)

\* API keys of fewer than 10 characters
ShortKeys == {"", "sk-short"}
validateApiKey(apiKey) == apiKey \notin ShortKeys

validateTimeout(timeout) == timeout >= 1000 /\ timeout <= 300000
validateRetryConfig(retries, retryDelay) ==
    /\ retries >= 0 /\ retries <= 10
    /\ retryDelay >= 100 /\ retryDelay <= 10000
validateFallbackModel(model) == model # ""

\* validateConfig() returns (TRUE) or throws a ValidationError (FALSE)
validateConfig(c) ==
    /\ validateApiKey(c.apiKey)
    /\ validateTimeout(c.timeout)
    /\ validateRetryConfig(c.retries, c.retryDelay)
    /\ validateFallbackModel(c.fallback_model)

\* no client was returned by a with* method
NoClient == [apiKey |-> "", timeout |-> 0, retries |-> 0, retryDelay |-> 0,
             fallback_model |-> NoModel, appId |-> NoAppId, headers |-> NoHeaders]

\* everything of a call but the service's config and the caller's arguments
callVars == <<pc, shape, attempt, signal, headers, retryConfig, fallbackModel, lastError,
              result, now, aborted, waited, log, sleeps, firstModel, uniform, failed,
              cause, settledAt>>

\* variant: the configuration object shared with the services is changed in
\* place, so a call in flight reads the new values
updateConfig_inPlace(newConfig) ==
    /\ updates < MaxUpdates
    /\ updates' = updates + 1
    /\ client' = mergeConfig(spread(client, newConfig))
    /\ IF validateConfig(client')
       THEN /\ config' = client'
            /\ outcome' = "updated"
       ELSE /\ UNCHANGED config
            /\ outcome' = "updateThrew"
    /\ UNCHANGED <<userConfig, clone, request>>
    /\ UNCHANGED <<options, requestOptions, secondArg, env, callVars>>
    /\ UNCHANGED <<streamVars, classifierVars, rawVars>>

\* updateConfig(newConfig): this.config is assigned a new object, then
\* validated, then the services are created anew with it; when validateConfig
\* throws, the assignment stays and the services keep the configuration they
\* had.  config is the configuration of the service object the call of this
\* run is made on: the caller takes the service from the client when the call
\* starts, so an update before the call reaches it, and an update while the
\* call is in flight replaces the client's services but not that object
updateConfig(newConfig) ==
    /\ updates < MaxUpdates
    /\ updates' = updates + 1
    /\ client' = mergeConfig(spread(client, newConfig))
    /\ IF validateConfig(client')
       THEN /\ config' = IF pc = "idle" THEN client' ELSE config
            /\ outcome' = "updated"
       ELSE /\ UNCHANGED config
            /\ outcome' = "updateThrew"
    /\ UNCHANGED <<userConfig, clone, request>>
    /\ UNCHANGED <<options, requestOptions, secondArg, env, callVars>>
    /\ UNCHANGED <<streamVars, classifierVars, rawVars>>

\* new LunosClient(config) called by a with* method of the client: the clone
\* is returned unless its constructor throws (one clone is followed per run)
LunosClient(newConfig) ==
    /\ pc = "idle"
    /\ clone = NoClient
    /\ IF validateConfig(mergeConfig(newConfig))
       THEN /\ clone' = mergeConfig(newConfig)
            /\ outcome' = "cloned"
       ELSE /\ UNCHANGED clone
            /\ outcome' = "cloneThrew"
    /\ UNCHANGED <<client, userConfig, updates, request>>
    /\ UNCHANGED <<requestVars, streamVars, classifierVars, rawVars>>

withConfig(newConfig) == LunosClient(spread(client, newConfig))
withTimeout(timeout) == LunosClient(spread(client, [timeout |-> timeout]))
withRetryConfig(retries, retryDelay) ==
    LunosClient(spread(client, [retries |-> retries, retryDelay |-> retryDelay]))

\* JSON.stringify(request) of a request with model, messages and appId
requestBody(req) ==
    IF req.appId # NoAppId
    THEN JsonText(Append(ChatBody.fields, [k |-> "appId", v |-> req.appId]))
    ELSE ChatBody

\* the RequestOptions {} and { appId: request.appId }
EmptyOptions == [timeout |-> 0, fallback_model |-> NoModel, signal |-> FALSE,
                 headers |-> NoHeaders, appId |-> NoAppId]
AppIdOptions(req) == [EmptyOptions EXCEPT !.appId = req.appId]

\* EmbeddingService.createEmbedding(request): makeRequest is called without
\* RequestOptions
createEmbedding ==
    /\ request.service = "embedding"
    /\ requestOptions' = EmptyOptions
    /\ makeRequestCalled(requestOptions')

\* ImageService.generateImage(request)
generateImage ==
    /\ request.service = "image"
    /\ requestOptions' = AppIdOptions(request)
    /\ makeRequestCalled(requestOptions')

\* VideoService.generateVideo(request)
generateVideo ==
    /\ request.service = "video"
    /\ requestOptions' = AppIdOptions(request)
    /\ makeRequestCalled(requestOptions')

\* AudioService.generateAudio(request) up to its await of makeRawRequest
generateAudio ==
    /\ request.service = "audio"
    /\ requestOptions' = AppIdOptions(request)
    /\ makeRawRequestCalled(requestOptions')

\* the service is used on its own, by a chat request that names no appId
ServiceOnly ==
    /\ client = config
    /\ userConfig = config
    /\ clone = NoClient
    /\ outcome = "constructed"
    /\ updates = 0
    /\ request = [service |-> "chat", appId |-> NoAppId]

(***************************************************************************)
(* Initial states: a service with a valid configuration and one call about  *)
(* to be made.  Three families of runs: a remote API answering at once     *)
(* with any status and body, a slow remote API with cancellation in play,   *)
(* and a service configured with custom headers and identity.               *)
(***************************************************************************)
InitAnswering ==
    /\ env = "answering"
    /\ config \in [retries : 0..MaxRetriesCfg, retryDelay : {1000}, timeout : {30000},
                   fallback_model : {NoModel, "fallback-config"},
                   apiKey : {"sk-alpha-0001"}, headers : {NoHeaders}, appId : {NoAppId}]
    /\ requestOptions \in [timeout : {0}, fallback_model : {NoModel, "fallback-call"},
                           signal : {FALSE}, headers : {NoHeaders}, appId : {NoAppId}]
    /\ options \in [body : {NoBody, ChatBody}]

InitSlow ==
    /\ env = "slow"
    /\ config \in [retries : 0..MaxRetriesCfg, retryDelay : {1000}, timeout : {2000},
                   fallback_model : {NoModel, "fallback-config"},
                   apiKey : {"sk-alpha-0001"}, headers : {NoHeaders}, appId : {NoAppId}]
    /\ requestOptions \in [timeout : {0, 1000}, fallback_model : {NoModel},
                           signal : BOOLEAN, headers : {NoHeaders}, appId : {NoAppId}]
    /\ options \in [body : {ChatBody}]

\* custom headers of the configuration and of one call
ConfigHeaders ==
    {NoHeaders,
     HTrace :> <<"config">>,
     (HAuthorization :> <<"Basic", "config">>) @@ (HContentType :> TextPlain)}
CallHeaders ==
    {NoHeaders,
     (HTrace :> <<"call">>) @@ (HAppId :> <<"header-call">>),
     toLowerCase(HAuthorization) :> <<"Basic", "call">>}

\* a service configured with custom headers, application identity and backoff
\* base, and calls that bring their own headers and identity
InitConfigured ==
    /\ env = "configured"
    /\ config \in [retries : 0..MaxRetriesCfg, retryDelay : {1000, 4000}, timeout : {30000},
                   fallback_model : {"fallback-config"},
                   apiKey : {"sk-alpha-0001", "sk-bravo-0002"}, headers : ConfigHeaders,
                   appId : {NoAppId, "app-config"}]
    /\ requestOptions \in [timeout : {0}, fallback_model : {NoModel}, signal : {FALSE},
                           headers : CallHeaders, appId : {NoAppId, "app-call"}]
    /\ options \in [body : {ChatBody}]

\* no call has been made
RequestIdle ==
    /\ secondArg = requestOptions
    /\ pc = "idle"
    /\ shape = "none"
    /\ attempt = 0
    /\ signal = NoSignal
    /\ headers = NoHeaders
    /\ retryConfig = [maxRetries |-> 0, baseDelay |-> 0]
    /\ fallbackModel = NoModel
    /\ lastError = NoError
    /\ result = Pending
    /\ now = 0
    /\ aborted = FALSE
    /\ waited = 0
    /\ log = <<>>
    /\ sleeps = <<>>
    /\ firstModel = FALSE
    /\ uniform = TRUE
    /\ failed = 0
    /\ cause = "none"
    /\ settledAt = <<>>
    /\ rawResult = NoRawResult
    /\ received = NoResponse

\* fullResponse of a StreamProcessorResult: accumulate ? fullResponse : undefined
NoText == [defined |-> FALSE, text |-> <<>>]
Text(t) == [defined |-> TRUE, text |-> t]

\* no result has been returned by processStream
NoStreamResult == [fullResponse |-> NoText, completed |-> FALSE, error |-> NoError]

\* no stream is being processed
StreamIdle ==
    /\ input = <<>>
    /\ upstream = <<>>
    /\ upstreamEnd = "close"
    /\ accumulate = FALSE
    /\ spc = "idle"
    /\ pending = <<>>
    /\ buffer = <<>>
    /\ fullResponse = <<>>
    /\ completed = FALSE
    /\ readError = NoError
    /\ delivered = <<>>
    /\ released = 0
    /\ atDone = -1
    /\ callbacks = "quiet"
    /\ acquired = 0
    /\ onCompleteCalls = 0
    /\ onErrorCalls = 0
    /\ streamResult = NoStreamResult
    /\ withStreamResolved = FALSE

\* no response is being classified
ClassifierIdle ==
    /\ response = NoResponse
    /\ classified = NoError

Init ==
    /\ InitAnswering \/ InitSlow \/ InitConfigured
    /\ RequestIdle
    /\ ServiceOnly
    /\ StreamIdle
    /\ ClassifierIdle

Next ==
    \/ makeRequest
    \/ createCompletion
    \/ makeRequestWithRetry
    \/ sleepResolves
    \/ tryWithFallbackModel
    \/ makeStreamRequest
    \/ streamSettles
    \/ tryStreamWithFallbackModel
    \/ makeRawRequest
    \/ rawSettles
    \/ abortController
    \/ serverSlow

Spec == Init /\ [][Next]_vars

(***************************************************************************)
(* handleErrorResponse on its own: any non-2xx response, classified once.   *)
(***************************************************************************)
\* non-2xx statuses a server or proxy can answer with
ErrorStatuses == {300, 304, 400, 401, 402, 403, 404, 408, 418, 422, 429,
                  500, 501, 502, 503, 504}
\* retry-after header: absent, empty, integer seconds, a word, digits with a unit
RetryAfterHeaders ==
    {NoHeader, Header(<<>>), Header(<<"1","2","0">>), Header(<<"s","o","o","n">>), Header(<<"7","s">>)}

\* await this.handleErrorResponse(response)
errorResponseHandled ==
    /\ classified = NoError
    /\ ~Ok(response)
    /\ classified' = handleErrorResponse(response)
    /\ UNCHANGED <<response, requestVars, streamVars, clientVars, rawVars>>

InitClassify ==
    /\ env = "silent"
    /\ config = [retries |-> 0, retryDelay |-> 1000, timeout |-> 30000,
                 fallback_model |-> NoModel, apiKey |-> "sk-alpha-0001",
                 headers |-> NoHeaders, appId |-> NoAppId]
    /\ requestOptions = [timeout |-> 0, fallback_model |-> NoModel, signal |-> FALSE,
                         headers |-> NoHeaders, appId |-> NoAppId]
    /\ options = [body |-> NoBody]
    /\ RequestIdle
    /\ ServiceOnly
    /\ StreamIdle
    /\ response \in {withRetryAfter(Response(s, b), h) :
                        s \in ErrorStatuses, b \in Bodies, h \in RetryAfterHeaders}
    /\ classified = NoError

NextClassify == errorResponseHandled

SpecClassify == InitClassify /\ [][NextClassify]_vars

(***************************************************************************)
(* A LunosClient is constructed, reconfigured and cloned, then one request  *)
(* is made through one of its services.                                     *)
(***************************************************************************)
\* arguments of the constructor
UserConfigs ==
    {[apiKey |-> "sk-alpha-0001"],
     [apiKey |-> "sk-alpha-0001", appId |-> "app-config"],
     [apiKey |-> "sk-alpha-0001", appId |-> NoAppId, retries |-> 1, retryDelay |-> 100],
     [apiKey |-> "sk-short"],
     [apiKey |-> "sk-bravo-0002", timeout |-> 500]}
\* arguments of updateConfig and withConfig
ConfigUpdates ==
    {[timeout |-> 5], [timeout |-> 120000, retries |-> 0], [retries |-> 11],
     [retryDelay |-> 50], [appId |-> "app-two"]}
Services == {"chat", "embedding", "image", "video", "audio"}

InitClient ==
    /\ env = "media"
    /\ userConfig \in {u \in UserConfigs : validateConfig(mergeConfig(u))}
    /\ client = mergeConfig(userConfig)
    /\ config = client
    /\ clone = NoClient
    /\ outcome = "constructed"
    /\ updates = 0
    /\ request \in [service : Services, appId : {NoAppId, "app-request"}]
    /\ options = [body |-> requestBody(request)]
    /\ requestOptions = EmptyOptions
    /\ RequestIdle
    /\ StreamIdle
    /\ ClassifierIdle

NextClient ==
    \/ \E newConfig \in ConfigUpdates : pc = "idle" /\ updateConfig(newConfig)
    \/ \E newConfig \in ConfigUpdates : withConfig(newConfig)
    \/ \E timeout \in {999, 1000} : withTimeout(timeout)
    \/ \E retries \in {10, 11} : withRetryConfig(retries, 10000)
    \/ createCompletion
    \/ createEmbedding
    \/ generateImage
    \/ generateVideo
    \/ generateAudio
    \/ makeRequestWithRetry
    \/ sleepResolves
    \/ rawSettles

SpecClient == InitClient /\ [][NextClient]_vars

(***************************************************************************)
(* Reconfiguration during a call: a chat call, buffered or streaming, is    *)
(* made on a service of a client, and updateConfig runs on that client      *)
(* while the call is in flight.                                             *)
(***************************************************************************)
\* arguments of the constructor
StartConfigs ==
    {[apiKey |-> "sk-alpha-0001", fallback_model |-> "fallback-config", retries |-> 1,
      retryDelay |-> 100, appId |-> "app-config"],
     [apiKey |-> "sk-alpha-0001", retries |-> 0],
     [apiKey |-> "sk-bravo-0002", fallback_model |-> "fallback-config", retries |-> 2,
      retryDelay |-> 1000, headers |-> (HTrace :> <<"config">>)]}
\* arguments of updateConfig
MidCallUpdates ==
    {[fallback_model |-> "fallback-two"],
     [apiKey |-> "sk-charlie-03", appId |-> "app-two"],
     [retries |-> 0, retryDelay |-> 5000, headers |-> (HTrace :> <<"update">>)],
     [retries |-> 3, fallback_model |-> NoModel],
     [timeout |-> 5]}

InitReconfigure ==
    /\ env = "configured"
    /\ userConfig \in StartConfigs
    /\ client = mergeConfig(userConfig)
    /\ config = client
    /\ clone = NoClient
    /\ outcome = "constructed"
    /\ updates = 0
    /\ request = [service |-> "chat", appId |-> NoAppId]
    /\ options = [body |-> ChatBody]
    /\ requestOptions \in {EmptyOptions, [EmptyOptions EXCEPT !.headers = HTrace :> <<"call">>]}
    /\ RequestIdle
    /\ StreamIdle
    /\ ClassifierIdle

NextReconfigure ==
    \/ \E newConfig \in MidCallUpdates : (InFlight \/ pc = "sleep") /\ updateConfig(newConfig)
    \/ createCompletion
    \/ makeRequestWithRetry
    \/ sleepResolves
    \/ tryWithFallbackModel
    \/ makeStreamRequest
    \/ streamSettles
    \/ tryStreamWithFallbackModel

SpecReconfigure == InitReconfigure /\ [][NextReconfigure]_vars

(***************************************************************************)
(* StreamProcessor.processStream.                                           *)
(* A byte is a one-character string for ASCII; "C3" and "A9" are the two    *)
(* bytes of the UTF-8 encoding of e-acute.                                  *)
(***************************************************************************)
LF == "\n"
LeadByte == "C3"
ContByte == "A9"
EAcute == "e'"
Replacement == "U+FFFD"

\* TextDecoder.decode(value, {stream: true}) on the bytes held back by the
\* decoder followed by the new chunk: the decoded text and the bytes held
\* back for the next call.  A lead byte followed by its continuation byte is
\* one character, a lead byte at the end of the input is held back, any other
\* lead or continuation byte decodes to the replacement character.
decodedAt(bytes, i) ==
    IF bytes[i] = LeadByte
    THEN IF i = Len(bytes) THEN "held"
         ELSE IF bytes[i + 1] = ContByte THEN EAcute ELSE Replacement
    ELSE IF bytes[i] = ContByte
    THEN IF i > 1 /\ bytes[i - 1] = LeadByte THEN "skip" ELSE Replacement
    ELSE bytes[i]
decode(bytes) ==
    [text |-> SelectSeq([i \in 1..Len(bytes) |-> decodedAt(bytes, i)],
                        LAMBDA c : ~(c \in {"held", "skip"})),
     held |-> IF bytes # <<>> /\ Last(bytes) = LeadByte THEN <<LeadByte>> ELSE <<>>]

\* String.prototype.split("\n")
firstNewline(text) ==
    CHOOSE i \in 1..Len(text) : text[i] = LF /\ \A j \in 1..(i - 1) : text[j] # LF
RECURSIVE split(_)
split(text) ==
    IF \E i \in 1..Len(text) : text[i] = LF
    THEN <<SubSeq(text, 1, firstNewline(text) - 1)>>
         \o split(SubSeq(text, firstNewline(text) + 1, Len(text)))
    ELSE <<text>>

\* line.trim() === ""
isBlank(line) == \A i \in 1..Len(line) : line[i] \in {" ", "\t", "\r"}

DataPrefix == <<"d","a","t","a",":"," ">>
DoneSentinel == <<"[","D","O","N","E","]">>
FrameHead == <<"{","\"","c","h","o","i","c","e","s","\"",":","[","{","\"","d","e","l","t","a","\"",":","{","\"","c","o","n","t","e","n","t","\"",":","\"">>
FrameTail == <<"\"","}","}","]","}">>
EmptyObject == <<"{","}">>

\* the text of a delta frame with the given content
frameText(content) == FrameHead \o content \o FrameTail

\* JSON.parse(data) on the payloads the remote API sends: a delta frame, the
\* empty object, or text that is not JSON (a truncated or garbled frame)
isFrame(data) ==
    /\ Len(data) >= Len(FrameHead) + Len(FrameTail)
    /\ SubSeq(data, 1, Len(FrameHead)) = FrameHead
    /\ SubSeq(data, Len(data) - Len(FrameTail) + 1, Len(data)) = FrameTail
    /\ \A i \in (Len(FrameHead) + 1)..(Len(data) - Len(FrameTail)) :
          ~(data[i] \in {"\"", "\\"})
JSONparse(data) ==
    IF isFrame(data)
    THEN [ok |-> TRUE,
          content |-> SubSeq(data, Len(FrameHead) + 1, Len(data) - Len(FrameTail))]
    ELSE IF data = EmptyObject THEN [ok |-> TRUE, content |-> <<>>]
    ELSE [ok |-> FALSE, content |-> <<>>]

\* the caller's onChunk throws for the frame with this content
onChunkThrows(content) == callbacks = "onChunkThrows" /\ content = <<"B">>

\* variant: a line that fails to parse ends the for loop
nextAfterParseError_stop(lines, i) == Len(lines) + 1

\* the catch block of the inner try only warns: the loop goes on with the
\* next line
nextAfterParseError(lines, i) == i + 1

\* the for loop over the complete lines of one chunk, from line i on, starting
\* from st = [delivered, fullResponse, completed, sawDone]; an exception of
\* onChunk lands in the catch block of the inner try, past the accumulation
RECURSIVE processLines(_, _, _, _)
processLines(lines, i, acc, st) ==
    IF i > Len(lines) THEN st
    ELSE LET line == lines[i] IN
         IF isBlank(line) THEN processLines(lines, i + 1, acc, st)
         ELSE IF startsWith(line, DataPrefix)
         THEN LET data == SubSeq(line, Len(DataPrefix) + 1, Len(line)) IN
              IF data = DoneSentinel
              THEN [st EXCEPT !.completed = TRUE, !.sawDone = TRUE]
              ELSE LET parsed == JSONparse(data) IN
                   IF parsed.ok
                   THEN processLines(lines, i + 1, acc,
                           [st EXCEPT !.delivered = Append(@, parsed.content),
                                      !.fullResponse =
                                          IF /\ ~onChunkThrows(parsed.content)
                                             /\ acc
                                             /\ parsed.content # <<>>
                                          THEN @ \o parsed.content ELSE @])
                   ELSE processLines(lines, nextAfterParseError(lines, i), acc, st)
         ELSE processLines(lines, i + 1, acc, st)

\* variant: the incomplete last line is dropped instead of kept
popLast_dropped(lines) == <<>>

\* lines.pop() || ""
popLast(lines) == Last(lines)

\* variant: the incomplete last line is processed with the complete ones
completeLines_all(lines) == lines

\* the lines left after lines.pop()
completeLines(lines) == SubSeq(lines, 1, Len(lines) - 1)

\* the callbacks that were handed to processStream
hasOnComplete == callbacks # "onChunkOnly"
hasOnError == callbacks # "onChunkOnly"

\* processStream up to its first await: the reader is acquired
processStream ==
    /\ spc = "idle"
    /\ spc' = "reading"
    /\ acquired' = acquired + 1
    /\ UNCHANGED <<input, upstream, upstreamEnd, accumulate, pending, buffer, fullResponse,
                   completed, readError, delivered, released, atDone, callbacks,
                   onCompleteCalls, onErrorCalls, streamResult, withStreamResolved>>
    /\ UNCHANGED <<requestVars, classifierVars, clientVars, rawVars>>

\* ChatService.createCompletionWithStream(request, onChunk) after its await of
\* createCompletionStream: processStream is called with onChunk only and is
\* not awaited, then the stream is returned
createCompletionWithStream ==
    /\ spc = "idle"
    /\ callbacks = "quiet"
    /\ ~accumulate
    /\ callbacks' = "onChunkOnly"
    /\ spc' = "reading"
    /\ acquired' = acquired + 1
    /\ withStreamResolved' = TRUE
    /\ UNCHANGED <<input, upstream, upstreamEnd, accumulate, pending, buffer, fullResponse,
                   completed, readError, delivered, released, atDone,
                   onCompleteCalls, onErrorCalls, streamResult>>
    /\ UNCHANGED <<requestVars, classifierVars, clientVars, rawVars>>

\* reader.read() resolves with a chunk of n bytes; the chunk is decoded, the
\* complete lines are processed and the loop awaits the next read
readChunk ==
    /\ spc = "reading"
    /\ \E n \in 1..Len(upstream) :
         \E bytes \in {pending \o SubSeq(upstream, 1, n)} :
         \E decoded \in {decode(bytes)} :
         \E text \in {buffer \o decoded.text} :
         \E lines \in {split(text)} :
         \E st \in {processLines(completeLines(lines), 1, accumulate,
                                [delivered |-> delivered, fullResponse |-> fullResponse,
                                 completed |-> completed, sawDone |-> FALSE])} :
             /\ upstream' = SubSeq(upstream, n + 1, Len(upstream))
             /\ pending' = decoded.held
             /\ buffer' = popLast(lines)
             /\ delivered' = st.delivered
             /\ fullResponse' = st.fullResponse
             /\ completed' = st.completed
             /\ atDone' = IF st.sawDone /\ atDone = -1 THEN Len(st.delivered) ELSE atDone
    /\ UNCHANGED <<input, upstreamEnd, accumulate, spc, readError, released, callbacks,
                   acquired, onCompleteCalls, onErrorCalls, streamResult,
                   withStreamResolved>>
    /\ UNCHANGED <<requestVars, classifierVars, clientVars, rawVars>>

\* the statements after the finally block: onComplete when completed, then
\* the result is returned (an exception of onComplete rejects the promise)
Conclude(isCompleted, error) ==
    /\ onCompleteCalls' = IF hasOnComplete /\ isCompleted
                          THEN onCompleteCalls + 1 ELSE onCompleteCalls
    /\ IF hasOnComplete /\ isCompleted /\ callbacks = "onCompleteThrows"
       THEN /\ spc' = "threw"
            /\ UNCHANGED streamResult
       ELSE /\ spc' = "returned"
            /\ streamResult' = [fullResponse |-> IF accumulate THEN Text(fullResponse)
                                                 ELSE NoText,
                                completed |-> isCompleted,
                                error |-> error]

\* variant: what is left in the buffer is processed as a last line when the
\* upstream closes
readDone_flush ==
    /\ spc = "reading"
    /\ upstream = <<>>
    /\ upstreamEnd = "close"
    /\ \E st \in {processLines(<<buffer>>, 1, accumulate,
                               [delivered |-> delivered, fullResponse |-> fullResponse,
                                completed |-> completed, sawDone |-> FALSE])} :
         /\ delivered' = st.delivered
         /\ fullResponse' = st.fullResponse
    /\ buffer' = <<>>
    /\ completed' = TRUE
    /\ released' = released + 1
    /\ Conclude(TRUE, NoError)
    /\ UNCHANGED <<input, upstream, upstreamEnd, accumulate, pending,
                   readError, atDone, callbacks, acquired, onErrorCalls,
                   withStreamResolved>>
    /\ UNCHANGED <<requestVars, classifierVars, clientVars, rawVars>>

\* reader.read() resolves with done: completed is set, the lock is released,
\* onComplete is called and the result is returned; what is left in the
\* buffer is not looked at
readDone ==
    /\ spc = "reading"
    /\ upstream = <<>>
    /\ upstreamEnd = "close"
    /\ completed' = TRUE
    /\ released' = released + 1
    /\ Conclude(TRUE, NoError)
    /\ UNCHANGED <<input, upstream, upstreamEnd, accumulate, pending, buffer, fullResponse,
                   readError, delivered, atDone, callbacks, acquired, onErrorCalls,
                   withStreamResolved>>
    /\ UNCHANGED <<requestVars, classifierVars, clientVars, rawVars>>

\* variant: the lock is released at the end of the catch block, after onError
readFails_releaseInCatch ==
    /\ spc = "reading"
    /\ upstreamEnd = "error"
    /\ readError' = FetchFailed
    /\ onErrorCalls' = IF hasOnError THEN onErrorCalls + 1 ELSE onErrorCalls
    /\ IF hasOnError /\ callbacks = "onErrorThrows"
       THEN /\ spc' = "threw"
            /\ UNCHANGED <<released, onCompleteCalls, streamResult>>
       ELSE /\ released' = released + 1
            /\ Conclude(completed, FetchFailed)
    /\ UNCHANGED <<input, upstream, upstreamEnd, accumulate, pending, buffer, fullResponse,
                   completed, delivered, atDone, callbacks, acquired, withStreamResolved>>
    /\ UNCHANGED <<requestVars, classifierVars, clientVars, rawVars>>

\* reader.read() rejects: the error is recorded and onError is called (an
\* exception of onError rejects the promise), the lock is released, then
\* onComplete is called if completed was set, and the result is returned
readFails ==
    /\ spc = "reading"
    /\ upstreamEnd = "error"
    /\ readError' = FetchFailed
    /\ onErrorCalls' = IF hasOnError THEN onErrorCalls + 1 ELSE onErrorCalls
    /\ released' = released + 1
    /\ IF hasOnError /\ callbacks = "onErrorThrows"
       THEN /\ spc' = "threw"
            /\ UNCHANGED <<onCompleteCalls, streamResult>>
       ELSE Conclude(completed, FetchFailed)
    /\ UNCHANGED <<input, upstream, upstreamEnd, accumulate, pending, buffer, fullResponse,
                   completed, delivered, atDone, callbacks, acquired, withStreamResolved>>
    /\ UNCHANGED <<requestVars, classifierVars, clientVars, rawVars>>

(***************************************************************************)
(* Streams fed to processStream.                                            *)
(***************************************************************************)
HiFrame == frameText(<<"H","i">>)
\* data: {"choices":[{"delta":{"content":"Hi"}}]} LF LF data: [DONE] LF LF
HiThenDone ==
    DataPrefix \o HiFrame \o <<LF, LF>> \o DataPrefix \o DoneSentinel \o <<LF, LF>>
\* two frames, [DONE], then a frame sent after the sentinel
FrameAfterDone ==
    DataPrefix \o frameText(<<"A">>) \o <<LF>> \o DataPrefix \o frameText(<<"B">>) \o <<LF, LF>>
    \o DataPrefix \o DoneSentinel \o <<LF, LF>>
    \o DataPrefix \o frameText(<<"C">>) \o <<LF, LF>>
\* a frame with a two-byte character, a garbled line, a frame, no sentinel
NoSentinel ==
    DataPrefix \o frameText(<<"H", LeadByte, ContByte>>) \o <<LF>>
    \o DataPrefix \o <<"{", "x">> \o <<LF>>
    \o DataPrefix \o EmptyObject \o <<LF>>
    \o DataPrefix \o frameText(<<"Z">>)
Streams == {HiThenDone, FrameAfterDone, NoSentinel}

InitStream ==
    /\ env = "silent"
    /\ config = [retries |-> 0, retryDelay |-> 1000, timeout |-> 30000,
                 fallback_model |-> NoModel, apiKey |-> "sk-alpha-0001", headers |-> NoHeaders,
                 appId |-> NoAppId]
    /\ requestOptions = [timeout |-> 0, fallback_model |-> NoModel, signal |-> FALSE,
                         headers |-> NoHeaders, appId |-> NoAppId]
    /\ options = [body |-> ChatBody]
    /\ RequestIdle
    /\ ServiceOnly
    /\ ClassifierIdle
    /\ input \in Streams
    /\ upstream = input
    /\ upstreamEnd \in {"close", "error", "open"}
    /\ accumulate \in BOOLEAN
    /\ spc = "idle"
    /\ pending = <<>>
    /\ buffer = <<>>
    /\ fullResponse = <<>>
    /\ completed = FALSE
    /\ readError = NoError
    /\ delivered = <<>>
    /\ released = 0
    /\ atDone = -1
    /\ callbacks \in IF accumulate
                    THEN {"quiet", "onChunkThrows", "onErrorThrows", "onCompleteThrows"}
                    ELSE {"quiet"}
    /\ acquired = 0
    /\ onCompleteCalls = 0
    /\ onErrorCalls = 0
    /\ streamResult = NoStreamResult
    /\ withStreamResolved = FALSE

NextStream ==
    \/ processStream
    \/ createCompletionWithStream
    \/ readChunk
    \/ readDone
    \/ readFails

SpecStream == InitStream /\ [][NextStream]_vars

(***************************************************************************)
(* Properties of the request pipeline.                                      *)
(***************************************************************************)
Regulars == {i \in 1..Len(log) : log[i].kind = "regular"}
Fallbacks == {i \in 1..Len(log) : log[i].kind = "fallback"}
KeywordModel == <<"m","o","d","e","l">>
containsModel(error) == includes(toLowerCase(error.message), KeywordModel)
isNetworkError(e) == e.name = "NetworkError" /\ e.code = "NETWORK_ERROR" /\ e.status = 0

\* C1: without a fallback model, a buffered call whose attempts all got a
\* non-2xx response of one same status out of {408, 429, 500, 502, 503, 504}
\* has made exactly retries + 1 transport calls when it ends, and it ends by
\* throwing the error of its last attempt.
C1_ExactlyRetriesPlusOneCalls ==
    (/\ pc = "done"
     /\ shape = "buffered"
     /\ fallbackModel = NoModel
     /\ uniform
     /\ lastError.status \in retryStatusCodes)
    => (/\ Len(log) = config.retries + 1
        /\ failed = config.retries + 1
        /\ result = Thrown(lastError))

C1_Witness ==
    /\ pc = "done"
    /\ shape = "buffered"
    /\ fallbackModel = NoModel
    /\ uniform
    /\ lastError.status = 408
    /\ config.retries >= 2
    /\ Len(log) = config.retries + 1

\* C2: on the buffered path an AuthenticationError or ValidationError caught
\* by an attempt ends the call at once with that error: no later transport
\* call, no backoff sleep after it, no fallback attempt, whatever the retry
\* budget left and whether or not a fallback model is configured.
C2_NonRetryableThrownAtOnce ==
    (shape = "buffered" /\ lastError.name \in {"AuthenticationError", "ValidationError"})
    => (/\ pc = "done"
        /\ result = Thrown(lastError)
        /\ Len(log) = attempt + 1
        /\ Len(sleeps) = attempt
        /\ Fallbacks = {})

C2_Witness ==
    /\ shape = "buffered"
    /\ lastError.name = "ValidationError"
    /\ attempt >= 1
    /\ attempt < config.retries
    /\ fallbackModel # NoModel
    /\ pc = "done"

C4_TransportCallBudget ==
    /\ shape = "buffered" =>
          /\ Cardinality(Regulars) <= config.retries + 1
          /\ Cardinality(Fallbacks) <= 1
          /\ Len(log) <= config.retries + 2
    /\ shape = "stream" =>
          /\ Cardinality(Regulars) <= 1
          /\ Cardinality(Fallbacks) <= 1
          /\ Len(log) <= 2
    /\ shape = "raw" => Len(log) <= 1 /\ Fallbacks = {}
    /\ Fallbacks # {} =>
          /\ Last(log).kind = "fallback"
          /\ pc \in {"fallback", "streamFallback", "done"}
          /\ Len(sleeps) <= config.retries

C4_Witness ==
    /\ pc = "done"
    /\ shape = "buffered"
    /\ config.retries >= 1
    /\ Len(log) = config.retries + 2
    /\ result.kind = "thrown"
    /\ containsModel(result.error)

\* C7: once an attempt of a buffered call has failed because the cancellation
\* signal fired, the call is over: it has thrown, and no backoff sleep and no
\* transport call followed that attempt.
C7_CancellationEndsCall ==
    (shape = "buffered" /\ lastError \in {AbortError, TimeoutError})
    => (/\ pc = "done"
        /\ result.kind = "thrown"
        /\ Len(log) = attempt + 1
        /\ Len(sleeps) = attempt)

\* C8: a buffered call that ends because its last transport call was rejected
\* (by the fired cancellation signal or by the network) throws a NetworkError
\* with code NETWORK_ERROR and status 0.
C8_RejectionsSurfaceAsNetworkError ==
    (/\ shape = "buffered"
     /\ pc = "done"
     /\ result.kind = "thrown"
     /\ cause \in {"cancel", "transport"}
     /\ ~result.error.lunos)
    => isNetworkError(result.error)

\* C9: also when the caller supplied a signal, no transport call stays in
\* flight for longer than the effective timeout.
C9_TimeoutAppliesWithExternalSignal ==
    (InFlight /\ requestOptions.signal)
    => now - Last(log).start <= effectiveTimeout

\* C10: every regular attempt of a buffered call runs under a timeout
\* deadline of its own, effective timeout after the start of that attempt,
\* and under the caller's signal, the same on all attempts, when one was
\* supplied.
C10_FreshDeadlinePerAttempt ==
    shape = "buffered" =>
        \A i \in Regulars :
            IF requestOptions.signal
            THEN log[i].signal = ExternalSignal
            ELSE /\ log[i].signal.kind = "timeout"
                 /\ log[i].signal.deadline = log[i].start + effectiveTimeout

(***************************************************************************)
(* Properties of the stream decoder.                                        *)
(***************************************************************************)
\* the stream being processed is the "Hi" frame followed by [DONE]
FedHiThenDone == input = HiThenDone

\* C5: fed the "Hi" frame followed by [DONE], cut into chunks at any split
\* points, processStream never delivers anything but that one frame, and when
\* the stream has ended it has delivered exactly the frame "Hi" and returns
\* completed = true.
C5_OneFrameWhateverTheSplit ==
    (FedHiThenDone /\ spc # "idle") =>
        /\ delivered \in {<<>>, << <<"H","i">> >>}
        /\ (Len(upstream) <= Len(HiThenDone) - Len(DataPrefix \o HiFrame) - 1)
              => delivered = << <<"H","i">> >>
        /\ (spc = "returned" /\ readError = NoError)
              => /\ delivered = << <<"H","i">> >>
                 /\ completed
                 /\ atDone = 1
                 /\ fullResponse = IF accumulate THEN <<"H","i">> ELSE <<>>

C5_Witness ==
    /\ FedHiThenDone
    /\ spc = "returned"
    /\ readError = NoError
    /\ delivered = << <<"H","i">> >>
    /\ completed

\* C6: once a data: [DONE] line has been processed, no frame of a later line
\* is delivered to onChunk or added to the accumulated text.
C6_NothingDeliveredAfterDone ==
    atDone # -1 => Len(delivered) = atDone

\* C11: when the caller gave { signal } as the second argument of a buffered
\* call such as client.chat.createCompletion, every transport call of that
\* call is issued with the caller's signal, and a call whose controller was
\* aborted before it completed ends with a rejected promise.
C11_SecondArgumentSignalCancels ==
    (shape = "buffered" /\ secondArg.signal)
    => /\ \A i \in 1..Len(log) : log[i].signal = ExternalSignal
       /\ (aborted /\ pc = "done") => result.kind = "thrown"

\* C12: the i-th backoff delay (0-based) a buffered call awaits is
\* min(retryDelay * 2^i, 10000), whatever the failures were (a 429 with a
\* retry-after header included); a call whose retries + 1 attempts all failed
\* has awaited exactly retries delays, none after the last attempt; for
\* retryDelay 1000 the first five delays are 1000, 2000, 4000, 8000, 10000.
C12_BackoffDelays ==
    /\ shape = "buffered" =>
          /\ \A i \in 1..Len(sleeps) : sleeps[i] = Min(config.retryDelay * 2^(i - 1), 10000)
          /\ Len(sleeps) <= failed
          /\ failed = config.retries + 1 => Len(sleeps) = config.retries
    /\ [i \in 1..5 |-> calculateRetryDelay(i - 1, 1000)] = <<1000, 2000, 4000, 8000, 10000>>

C12_Witness ==
    /\ pc = "done"
    /\ shape = "buffered"
    /\ config.retryDelay = 4000
    /\ failed = config.retries + 1
    /\ sleeps = <<4000, 8000, 10000>>
    /\ lastError.name = "RateLimitError"
    /\ lastError.retryAfter = Number(120)

\* C13: a buffered call whose first attempt received HTTP 400, 403 or 404 is
\* over after that single transport call, with the classified error thrown
\* and no backoff delay awaited, whatever config.retries is (stated for calls
\* without a fallback model).
C13_ClientErrorsNotRetried ==
    (/\ shape = "buffered"
     /\ fallbackModel = NoModel
     /\ uniform
     /\ failed >= 1
     /\ lastError.status \in {400, 403, 404})
    => /\ pc = "done"
       /\ result = Thrown(lastError)
       /\ Len(log) = 1
       /\ sleeps = <<>>

\* C14: within one buffered call at most one transport call is in flight at
\* any time, and a regular attempt starts only after the previous transport
\* call has settled, its failure has been classified and the whole backoff
\* delay computed for it has elapsed.
C14_AttemptsStrictlySequential ==
    shape = "buffered" =>
        /\ Len(log) - Len(settledAt) \in {0, 1}
        /\ \A k \in 1..(Len(log) - 1) :
              /\ k <= Len(settledAt)
              /\ failed >= k
              /\ log[k + 1].kind = "regular" =>
                    /\ k <= Len(sleeps)
                    /\ log[k + 1].start >= settledAt[k] + sleeps[k]

C14_Witness ==
    /\ shape = "buffered"
    /\ pc = "done"
    /\ Len(log) >= 3
    /\ log[3].kind = "regular"
    /\ settledAt[1] > log[1].start
    /\ log[2].start = settledAt[1] + sleeps[1]
    /\ log[3].start >= settledAt[2] + sleeps[2]

\* C15: the error thrown for a non-2xx response carries the response's status
\* and its kind is decided by the status alone: 401 AuthenticationError, 429
\* RateLimitError, 400 / 403 / 404 LunosError with code BAD_REQUEST /
\* FORBIDDEN / NOT_FOUND, 500 / 502 / 503 / 504 LunosError with code
\* SERVER_ERROR, any other status (408 included) APIError.
C15_StatusDecidesKind ==
    classified # NoError =>
        /\ classified.status = response.status
        /\ classified.lunos
        /\ CASE response.status = 401 -> classified.name = "AuthenticationError"
             [] response.status = 429 -> classified.name = "RateLimitError"
             [] response.status = 400 ->
                   classified.name = "LunosError" /\ classified.code = "BAD_REQUEST"
             [] response.status = 403 ->
                   classified.name = "LunosError" /\ classified.code = "FORBIDDEN"
             [] response.status = 404 ->
                   classified.name = "LunosError" /\ classified.code = "NOT_FOUND"
             [] response.status \in {500, 502, 503, 504} ->
                   classified.name = "LunosError" /\ classified.code = "SERVER_ERROR"
             [] OTHER -> classified.name = "APIError"

C15_Witness ==
    /\ response.status = 408
    /\ response.body = TextBody
    /\ classified.name = "APIError"
    /\ classified.status = 408

\* C16: the message of the error thrown for a non-2xx response is the body's
\* error.message when the body is JSON carrying a non-empty error.message, and
\* "HTTP <status>: <statusText>" in every other case.
C16_MessageOfClassifiedError ==
    classified # NoError =>
        classified.message =
            IF response.body.kind = "json" /\ response.body.message # <<>>
            THEN response.body.message
            ELSE <<"H","T","T","P"," ">> \o Digits(response.status) \o <<":"," ">> \o response.statusText

\* C17: the retryAfter of the error thrown for a 429 response is the integer
\* of the retry-after header when the header holds an integer, and undefined
\* when the header is missing or does not start with anything parseable as an
\* integer; the error thrown for any other status has no retryAfter.
C17_RetryAfterOnlyFromIntegerHeader ==
    classified # NoError =>
        /\ (response.status = 429 /\ response.retryAfter = Header(<<"1","2","0">>))
              => classified.retryAfter = Number(120)
        /\ (response.status = 429
            /\ (\/ ~response.retryAfter.present
                \/ response.retryAfter.text = <<>>
                \/ ~(Head(response.retryAfter.text) \in {"0","1","2","3","4","5","6","7","8","9"})))
              => classified.retryAfter = Undefined
        /\ response.status # 429 => classified.retryAfter = Undefined

isAuthorizationName(k) == toLowerCase(k) = toLowerCase(HAuthorization)

\* C19 as stated: every transport call carries Authorization: Bearer <apiKey>
\* with the apiKey of the configuration, whatever the custom headers are.
C19_BearerKeyOnEveryCall ==
    \A i \in 1..Len(log) :
        /\ HAuthorization \in DOMAIN log[i].headers
        /\ log[i].headers[HAuthorization] = <<"Bearer", config.apiKey>>

\* C19 amended: when neither config.headers nor the per-call headers name an
\* Authorization header (in any letter case), every transport call, retries
\* and the fallback attempt included, carries Authorization: Bearer <apiKey>
\* with the apiKey of the configuration, under that one name only.
C19_BearerKeyUnlessOverridden ==
    (\A k \in DOMAIN config.headers \cup DOMAIN requestOptions.headers :
        ~isAuthorizationName(k))
    => \A i \in 1..Len(log) :
          /\ HAuthorization \in DOMAIN log[i].headers
          /\ log[i].headers[HAuthorization] = <<"Bearer", config.apiKey>>
          /\ \A k \in DOMAIN log[i].headers : isAuthorizationName(k) => k = HAuthorization

C19_Witness ==
    /\ pc = "done"
    /\ shape = "buffered"
    /\ config.retries >= 1
    /\ Len(log) = config.retries + 2
    /\ Last(log).kind = "fallback"
    /\ config.apiKey = "sk-bravo-0002"
    /\ HTrace \in DOMAIN requestOptions.headers
    /\ \A i \in 1..Len(log) : log[i].headers[HAuthorization] = <<"Bearer", "sk-bravo-0002">>

FramesAfterDone == << <<"A">>, <<"B">>, <<"C">> >>
FramesNoSentinel == << <<"H", EAcute>>, <<>> >>
isPrefix(s, t) == Len(s) <= Len(t) /\ s = SubSeq(t, 1, Len(s))

\* C24: onChunk is invoked once per successfully parsed frame, in the order
\* of the frames' lines in the stream, however the lines are split across
\* chunks: what has been delivered is at every moment a prefix of the frames
\* of the input in stream order, the frames before the sentinel have all been
\* delivered when the sentinel is reached, and every terminated frame has
\* been delivered when a stream without sentinel has closed.
C24_OnChunkOncePerFrameInOrder ==
    /\ (input = FrameAfterDone /\ spc # "idle") =>
           /\ isPrefix(delivered, FramesAfterDone)
           /\ atDone # -1 => atDone = 2 /\ Len(delivered) >= 2
           /\ (spc = "returned" /\ upstreamEnd = "close") => atDone = 2
    /\ (input = NoSentinel /\ spc # "idle") =>
           /\ isPrefix(delivered, FramesNoSentinel)
           /\ (spc = "returned" /\ upstreamEnd = "close") => delivered = FramesNoSentinel

C24_Witness ==
    /\ input = FrameAfterDone
    /\ spc = "returned"
    /\ upstreamEnd = "close"
    /\ atDone = 2
    /\ SubSeq(delivered, 1, 2) = << <<"A">>, <<"B">> >>

\* the in-order concatenation of the contents of a sequence of frames
RECURSIVE concat(_)
concat(frames) == IF frames = <<>> THEN <<>> ELSE Head(frames) \o concat(Tail(frames))

\* C25: with accumulate = true the fullResponse that processStream returns is
\* the in-order concatenation of the contents of all parsed frames, also when
\* onChunk throws; with accumulate = false it is undefined.
C25_FullResponseIsConcatenation ==
    spc = "returned" =>
        streamResult.fullResponse = IF accumulate THEN Text(concat(delivered)) ELSE NoText

\* the unterminated last line of NoSentinel
TailOfNoSentinel == DataPrefix \o frameText(<<"Z">>)

\* C26: a data line whose payload is not valid JSON is skipped without
\* aborting the stream: fed a frame, a garbled data line and a later valid
\* frame, processStream has delivered both frames once the later frame's line
\* has been read, and no error is recorded and onError is not called unless a
\* read of the stream failed.
C26_GarbledLineSkipped ==
    /\ (input = NoSentinel /\ spc # "idle" /\ Len(upstream) <= Len(TailOfNoSentinel))
           => delivered = FramesNoSentinel
    /\ (readError # NoError \/ onErrorCalls > 0) => upstreamEnd = "error"
    /\ (spc = "returned" /\ upstreamEnd # "error") => streamResult.error = NoError

C26_Witness ==
    /\ input = NoSentinel
    /\ spc = "returned"
    /\ delivered = FramesNoSentinel
    /\ streamResult.error = NoError
    /\ streamResult.completed
    /\ onErrorCalls = 0

\* processStream has settled: its promise is resolved or rejected
Settled == spc \in {"returned", "threw"}

\* C27: processStream acquires the reader once, holds the lock while it reads
\* and has released it exactly once when its promise settles, whether the
\* upstream closed, a read failed or a callback threw.
C27_ReaderReleasedExactlyOnce ==
    /\ acquired <= 1
    /\ released <= acquired
    /\ spc = "reading" => acquired = 1 /\ released = 0
    /\ Settled => acquired = 1 /\ released = 1

C27_Witness ==
    /\ spc = "threw"
    /\ callbacks = "onErrorThrows"
    /\ onErrorCalls = 1
    /\ released = 1

\* C28: a result of processStream never has completed = true together with
\* an error, at most one of onComplete and onError is invoked per stream, and
\* a read error gives completed = false, onError (when given) called once
\* and onComplete not called.
C28_ErroredExcludesTerminated ==
    /\ spc = "returned" => ~(streamResult.completed /\ streamResult.error # NoError)
    /\ ~(onCompleteCalls > 0 /\ onErrorCalls > 0)
    /\ (spc = "returned" /\ readError # NoError)
           => /\ ~streamResult.completed
              /\ hasOnError => onErrorCalls = 1
              /\ onCompleteCalls = 0

\* C29: when the promise of createCompletionWithStream(request, onChunk) has
\* resolved, streaming is complete: processStream has settled and every
\* content frame of the response has been delivered to onChunk.
C29_ResolvedAfterStreaming ==
    withStreamResolved =>
        /\ Settled
        /\ input = HiThenDone => delivered = << <<"H","i">> >>

(***************************************************************************)
(* Properties of the client, its services and the raw call.                 *)
(***************************************************************************)
\* C21: a client built without an appId has appId "Unknown", and every
\* transport call issued through a service of a client carries an X-App-ID
\* header.
C21_EveryRequestCarriesAppId ==
    /\ ("appId" \notin DOMAIN userConfig /\ updates = 0) => client.appId = "Unknown"
    /\ \A i \in 1..Len(log) : HAppId \in DOMAIN log[i].headers

\* C22: for chat, image, audio, embedding and video requests, the X-App-ID
\* header of every transport call equals the appId given in the request.
C22_RequestAppIdOverrides ==
    (request.service \in Services /\ request.appId # NoAppId) =>
        \A i \in 1..Len(log) :
            /\ HAppId \in DOMAIN log[i].headers
            /\ log[i].headers[HAppId] = <<request.appId>>

\* C23: a raw call that received a 2xx response returns the response's body
\* bytes as buffer and its content-type header as contentType ("audio/mpeg"
\* for audio/mpeg, "application/octet-stream" when the header is absent); a
\* raw call that received a non-2xx response throws the classified error and
\* returns nothing.
C23_RawCallReturnsBytesAndType ==
    (shape = "raw" /\ pc = "done" /\ cause \in {"ok", "http"}) =>
        IF received.status \in 200..299
        THEN /\ result = Returned
             /\ rawResult.returned
             /\ rawResult.buffer = received.bytes
             /\ received.contentType = Header(AudioMpeg) => rawResult.contentType = AudioMpeg
             /\ ~received.contentType.present => rawResult.contentType = OctetStream
        ELSE /\ result = Thrown(handleErrorResponse(received))
             /\ rawResult = NoRawResult

C23_Witness ==
    /\ shape = "raw"
    /\ pc = "done"
    /\ received.contentType = Header(AudioMpeg)
    /\ rawResult = [returned |-> TRUE, buffer |-> <<73, 68, 51>>, contentType |-> AudioMpeg]

\* the ranges of the configuration
inRange(c) ==
    /\ c.timeout \in 1000..300000
    /\ c.retries \in 0..10
    /\ c.retryDelay \in 100..10000

\* C30: after construction, after any updateConfig call (returning or
\* throwing) and for every clone a with* method returned, getConfig() has
\* timeout in [1000, 300000], retries in [0, 10], retryDelay in [100, 10000].
C30_ConfigAlwaysInRange ==
    /\ inRange(client)
    /\ clone # NoClient => inRange(clone)

(***************************************************************************)
(* Properties of the fallback path.                                         *)
(***************************************************************************)
\* every regular attempt of the call has failed and no further one follows
LastRegularFailed ==
    /\ pc \in {"done", "fallback", "streamFallback"}
    /\ shape \in {"buffered", "stream"}
    /\ failed = Cardinality(Regulars)
    /\ shape = "buffered" =>
          (attempt = retryConfig.maxRetries \/ lastError.name \in {"AuthenticationError", "ValidationError"})

\* C31: a fallback attempt is made if and only if an effective fallback
\* model exists, the failure of the last regular attempt (buffered) or of the
\* single attempt (streaming) is neither an AuthenticationError nor a
\* ValidationError, and its message contains "model" in any letter case.
C31_FallbackIffModelError ==
    (shape \in {"buffered", "stream"} /\ pc \in {"done", "fallback", "streamFallback"}) =>
        (Fallbacks # {}
         <=> (/\ LastRegularFailed
              /\ effectiveFallback # NoModel
              /\ ~(lastError.name \in {"AuthenticationError", "ValidationError"})
              /\ containsModel(lastError)))

\* the fields of a JSON body other than model, in their order
otherFields(body) == SelectSeq(body.fields, LAMBDA f : f.k # "model")

\* C32: the request of a fallback attempt has the headers and the signal of
\* the original request, and a JSON body whose model is the effective
\* fallback model (the per-call value when given, else the configuration's)
\* and whose other fields are those of the original body.
C32_FallbackChangesOnlyModel ==
    \A i \in Fallbacks :
        /\ log[i].headers = log[1].headers
        /\ log[i].signal = log[1].signal
        /\ log[i].body.present
        /\ modelOf(log[i].body) = IF requestOptions.fallback_model # NoModel
                                  THEN requestOptions.fallback_model
                                  ELSE config.fallback_model
        /\ otherFields(log[i].body) = otherFields(options.body)
        /\ log[1].body = options.body

C32_Witness ==
    /\ shape = "stream"
    /\ pc = "done"
    /\ Fallbacks = {2}
    /\ modelOf(log[1].body) = "primary"
    /\ modelOf(log[2].body) = "fallback-call"
    /\ config.fallback_model = "fallback-config"

\* the condition under which the code calls tryWithFallbackModel or
\* tryStreamWithFallbackModel has been met
FallbackEntered ==
    /\ LastRegularFailed
    /\ effectiveFallback # NoModel
    /\ containsModel(lastError)
    /\ shape = "buffered" => ~(lastError.name \in {"AuthenticationError", "ValidationError"})

\* C33: whenever the fallback path is entered, exactly one transport call is
\* issued in addition to the regular ones, with or without a request body,
\* and an error thrown at the end is the error of the last regular attempt
\* or the error of that fallback transport call.
C33_OneFallbackCallWhateverTheBody ==
    FallbackEntered =>
        /\ Cardinality(Fallbacks) = 1
        /\ Len(log) = Cardinality(Regulars) + 1
        /\ (pc = "done" /\ result.kind = "thrown") =>
               /\ Len(settledAt) = Len(log)
               /\ (result.error = lastError \/ cause \in {"http", "transport", "cancel", "body"})

\* C34: a streaming call (with its JSON body) whose single attempt was
\* answered 401 throws that AuthenticationError and has issued one transport
\* call only, whatever the fallback model and the message of the error.
C34_StreamAuthenticationErrorEndsCall ==
    (/\ shape = "stream"
     /\ options.body.present
     /\ failed = 1
     /\ lastError.name = "AuthenticationError") =>
        /\ pc = "done"
        /\ Len(log) = 1
        /\ result = Thrown(lastError)

\* C35: in a buffered call, once an attempt has received a 2xx response the
\* call has ended: no backoff sleep, regular attempt or fallback attempt
\* follows, whatever the body of the response.
C35_SuccessStatusEndsBufferedCall ==
    (shape = "buffered" /\ cause \in {"ok", "body"}) => pc = "done"

\* C36: every error a streaming call (with its JSON body) throws is a
\* LunosError, whether the single attempt or the fallback attempt failed.
C36_StreamFailuresAreLunosErrors ==
    (shape = "stream" /\ options.body.present /\ pc = "done" /\ result.kind = "thrown")
        => result.error.lunos

(***************************************************************************)
(* Properties of reconfiguration.                                           *)
(***************************************************************************)
\* C37: getConfig() always equals the configuration the client's services
\* run with; in particular an updateConfig call that threw a ValidationError
\* left getConfig() as it was, which is the configuration the services keep.
C37_ThrowingUpdateLeavesClientUnchanged ==
    pc = "idle" => client = config

\* the configuration the client was constructed with
startConfig == mergeConfig(userConfig)

\* C38: a call that is in flight when updateConfig runs keeps the
\* configuration it started with: every transport call of the call, the
\* fallback call included, carries the headers and the apiKey of the start,
\* the number of regular attempts and the backoff delays follow the retries
\* and retryDelay of the start, and the fallback call names the fallback
\* model of the start.
C38_CallKeepsItsSnapshot ==
    pc # "idle" =>
        /\ \A i \in 1..Len(log) :
              /\ log[i].headers = log[1].headers
              /\ log[i].headers[HAuthorization] = Bearer(startConfig.apiKey)
              /\ startConfig.appId # NoAppId => log[i].headers[HAppId] = <<startConfig.appId>>
        /\ shape = "buffered" =>
              /\ Cardinality(Regulars) <= startConfig.retries + 1
              /\ \A i \in 1..Len(sleeps) :
                    sleeps[i] = calculateRetryDelay(i - 1, startConfig.retryDelay)
              /\ (pc = "done" /\ result.kind = "thrown" /\ Fallbacks = {})
                    => Cardinality(Regulars) = startConfig.retries + 1
        /\ Fallbacks # {} => startConfig.fallback_model # NoModel
        /\ \A i \in Fallbacks : modelOf(log[i].body) = startConfig.fallback_model

\* a streaming call ended by its fallback attempt, which named the fallback
\* model of the start although the client had been given another one
C38_Witness ==
    /\ shape = "stream"
    /\ pc = "done"
    /\ outcome = "updated"
    /\ client.fallback_model = "fallback-two"
    /\ Fallbacks = {2}
    /\ modelOf(log[2].body) = "fallback-config"

(***************************************************************************)
(* Properties of the end of a stream without sentinel.                      *)
(***************************************************************************)
\* the payload of the unterminated last line of NoSentinel
TailData == SubSeq(TailOfNoSentinel, Len(DataPrefix) + 1, Len(TailOfNoSentinel))

\* C39: a frame is delivered only for a line that was terminated by a
\* newline: fed a stream that ends without [DONE] and whose last line, a
\* valid data frame, has no newline, processStream never hands that frame to
\* onChunk and never adds its content to fullResponse; when the upstream has
\* closed the line is still in the buffer, completed is true and the result
\* holds the contents of the terminated frames only.
C39_UnterminatedLastLineDiscarded ==
    (input = NoSentinel /\ spc # "idle") =>
        /\ \A i \in 1..Len(delivered) : delivered[i] # <<"Z">>
        /\ \A i \in 1..Len(fullResponse) : fullResponse[i] # "Z"
        /\ (Settled /\ upstreamEnd = "close") =>
              /\ buffer = TailOfNoSentinel
              /\ completed
              /\ Len(delivered) = Len(FramesNoSentinel)
        /\ (spc = "returned" /\ upstreamEnd = "close") =>
              /\ streamResult.completed
              /\ accumulate => streamResult.fullResponse = Text(concat(FramesNoSentinel))

\* the upstream closed behind the unterminated frame, which would have parsed
C39_Witness ==
    /\ input = NoSentinel
    /\ JSONparse(TailData).ok
    /\ JSONparse(TailData).content = <<"Z">>
    /\ spc = "returned"
    /\ upstreamEnd = "close"
    /\ accumulate
    /\ buffer = TailOfNoSentinel
    /\ streamResult.completed
    /\ onCompleteCalls = 1

====
